---- MODULE Spec2Model ----
(***************************************************************************)
(* AgentArena (godot/src/agent_arena.cpp).  IPCClient: the tool-execution  *)
(* channel (queue, in-progress flag, current request, tool transport), the *)
(* connection management and the tick requests of the main channel.        *)
(* ToolRegistry and Agent: the calls that reach the tool channel.          *)
(* SimulationManager and EventBus: the tick counter and the recording.     *)
(*                                                                         *)
(* Every tool request gets a history number "rid" when it is submitted; the*)
(* program never reads it.  The variables sent, resolved, signals and last *)
(* are history variables: what was handed to the transport, which exchange *)
(* completed how, which signals were emitted, and the operation that ran   *)
(* last.                                                                   *)
(***************************************************************************)
EXTENDS Integers, Sequences, FiniteSets, TLC

VARIABLES
    tool_request_queue,        \* Array of queued requests (head = index 1)
    tool_request_in_progress,  \* bool
    current_tool_request,      \* request tied to the exchange in flight
    http_request_tool,         \* exchanges the tool transport has not completed
    http_request,              \* main transport: "idle" or the pending request
    is_connected,              \* bool
    response_received,         \* bool
    pending_response,          \* Dictionary
    submitted,                 \* history: number of execute_tool_sync calls
    sent,                      \* history: rids handed to the tool transport
    resolved,                  \* history: completed tool exchanges, in order
    signals,                   \* history: signals the tool callback emitted
    last,                      \* history: the operation that ran last
    client_current_tick,       \* IPCClient::current_tick
    http_request_tick,         \* history: tick of the request http_request carries
    answer,                    \* history: the request pending_response answers
    registered_tools,          \* ToolRegistry: names that have a schema
    ipc_client,                \* ToolRegistry: an IPCClient is attached
    tool_registry,             \* Agent: a ToolRegistry is attached
    Agent_agent_id,            \* Agent::agent_id
    call,                      \* history: the last execute_tool / call_tool
    current_tick,              \* SimulationManager::current_tick
    is_running,                \* SimulationManager::is_running
    event_bus,                 \* SimulationManager: an EventBus is attached
    recording,                 \* EventBus::recording
    event_queue                \* EventBus::event_queue

vars == <<tool_request_queue, tool_request_in_progress, current_tool_request,
          http_request_tool, http_request, is_connected, response_received,
          pending_response, submitted, sent, resolved, signals, last,
          client_current_tick, http_request_tick, answer,
          registered_tools, ipc_client, tool_registry, Agent_agent_id, call,
          current_tick, is_running, event_bus, recording, event_queue>>

toolVars == <<tool_request_queue, tool_request_in_progress,
              current_tool_request, http_request_tool, sent>>

mainVars == <<http_request, is_connected, response_received, pending_response>>

tickVars == <<client_current_tick, http_request_tick, answer>>

\* Every field of the IPCClient and its history, the last operation apart.
ipcVars == <<toolVars, mainVars, tickVars, submitted, resolved, signals>>

registryVars == <<registered_tools, ipc_client, tool_registry, Agent_agent_id, call>>

simVars == <<current_tick, is_running, event_bus, recording, event_queue>>

----------------------------------------------------------------------------
(* Bounds *)

MaxSubmits == 3

MaxTick == 2

MaxEvents == 2

----------------------------------------------------------------------------
(* Values *)

EmptyDict == [k \in {} |-> 0]

Get(d, k, default) == IF k \in DOMAIN d THEN d[k] ELSE default

\* HTTPRequest::Result values a completion reports, by their enum names.
RESULT_SUCCESS == "RESULT_SUCCESS"

HTTP_OK == 200

\* Bodies a server can answer with, as the text on the wire.
BodyGarbage == "not json"
BodyArray == "[1]"
BodyResult == "{\"result\":42}"
BodyShadow == "{\"result\":42,\"agent_id\":\"evil\",\"tool_name\":\"other\",\"tick\":99}"
BodyNone == ""
Bodies == {BodyNone, BodyGarbage, BodyArray, BodyResult, BodyShadow}

\* What the transport reports to a request_completed callback: the result,
\* the status code (0 when no response arrived) and the body.
Completions ==
    {[result |-> "RESULT_CANT_CONNECT", response_code |-> 0, body |-> BodyNone],
     [result |-> RESULT_SUCCESS, response_code |-> 404, body |-> BodyResult],
     [result |-> RESULT_SUCCESS, response_code |-> HTTP_OK, body |-> BodyGarbage],
     [result |-> RESULT_SUCCESS, response_code |-> HTTP_OK, body |-> BodyArray],
     [result |-> RESULT_SUCCESS, response_code |-> HTTP_OK, body |-> BodyResult],
     [result |-> RESULT_SUCCESS, response_code |-> HTTP_OK, body |-> BodyShadow]}

DictResult == [k \in {"result"} |-> 42]
DictShadow ==
    [k \in {"agent_id", "result", "tick", "tool_name"} |->
        CASE k = "agent_id" -> "evil"
          [] k = "tool_name" -> "other"
          [] k = "tick" -> 99
          [] OTHER -> 42]

\* JSON::parse followed by JSON::get_data: the parse error and the Variant.
JSONParse(body) ==
    CASE body = BodyResult -> [err |-> "OK", type |-> "DICTIONARY", data |-> DictResult]
      [] body = BodyShadow -> [err |-> "OK", type |-> "DICTIONARY", data |-> DictShadow]
      [] body = BodyArray -> [err |-> "OK", type |-> "ARRAY", data |-> EmptyDict]
      [] OTHER -> [err |-> "ERR_PARSE_ERROR", type |-> "NIL", data |-> EmptyDict]

\* Arguments callers pass to execute_tool_sync.
ParamsOf(tool_name) ==
    IF tool_name = "search" THEN [k \in {"q"} |-> "x"] ELSE [k \in {"dx"} |-> 1]
Calls ==
    {[tool_name |-> "search", agent_id |-> "agent_1", tick |-> 5],
     [tool_name |-> "move", agent_id |-> "agent_1", tick |-> 5],
     [tool_name |-> "search", agent_id |-> "", tick |-> 0]}

NoRequest == [rid |-> 0, dict |-> EmptyDict]

NoOp == [op |-> "none"]

NoAnswer == [to |-> "none", tick |-> 0]

NoCall == [via |-> "none"]

----------------------------------------------------------------------------
(* The tool channel as one value, so that the steps of a handler compose *)

ToolState ==
    [queue |-> tool_request_queue,
     in_progress |-> tool_request_in_progress,
     current |-> current_tool_request,
     transport |-> http_request_tool,
     sent |-> sent]

SetToolState(s) ==
    /\ tool_request_queue' = s.queue
    /\ tool_request_in_progress' = s.in_progress
    /\ current_tool_request' = s.current
    /\ http_request_tool' = s.transport
    /\ sent' = s.sent

\* Plausible slip: the drain does not look at the in-progress flag.
_process_next_tool_request_noguard(s) ==
    IF s.queue = <<>> THEN s
    ELSE [queue |-> Tail(s.queue),
          in_progress |-> TRUE,
          current |-> Head(s.queue),
          transport |-> s.transport \cup {Head(s.queue)},
          sent |-> Append(s.sent, Head(s.queue).rid)]

\* drain_next of the specification (IPCClient::_process_next_tool_request,
\* whose body is not part of the sources).
_process_next_tool_request(s) ==
    IF s.in_progress THEN s
    ELSE IF s.queue = <<>> THEN s
    ELSE [queue |-> Tail(s.queue),
          in_progress |-> TRUE,
          current |-> Head(s.queue),
          transport |-> s.transport \cup {Head(s.queue)},
          sent |-> Append(s.sent, Head(s.queue).rid)]

----------------------------------------------------------------------------
(* IPCClient::execute_tool_sync *)

\* Plausible slip: the context arguments are left at their defaults.
BuildRequestDict_defaults(tool_name, params, agent_id, tick) ==
    [k \in {"tool_name", "params", "agent_id", "tick"} |->
        CASE k = "tool_name" -> tool_name
          [] k = "params" -> params
          [] k = "agent_id" -> ""
          [] OTHER -> 0]

BuildRequestDict(tool_name, params, agent_id, tick) ==
    [k \in {"tool_name", "params", "agent_id", "tick"} |->
        CASE k = "tool_name" -> tool_name
          [] k = "params" -> params
          [] k = "agent_id" -> agent_id
          [] OTHER -> tick]

\* Plausible slip: the request goes straight to the transport whenever it is
\* submitted, whatever the in-progress flag says.
EnqueueAndStart_direct(s, entry) ==
    [s EXCEPT !.current = entry,
              !.in_progress = TRUE,
              !.transport = @ \cup {entry},
              !.sent = Append(@, entry.rid)]

\* Plausible slip: the request is inserted at the front of the array.
EnqueueAndStart_front(s, entry) ==
    LET queued == [s EXCEPT !.queue = <<entry>> \o @]
    IN IF ~queued.in_progress THEN _process_next_tool_request(queued) ELSE queued

\* Plausible slip: a request equal to a queued one is not queued again.
EnqueueAndStart_dedup(s, entry) ==
    LET queued == IF \E i \in DOMAIN s.queue : s.queue[i].dict = entry.dict
                  THEN s
                  ELSE [s EXCEPT !.queue = Append(@, entry)]
    IN IF ~queued.in_progress THEN _process_next_tool_request(queued) ELSE queued

EnqueueAndStart(s, entry) ==
    LET queued == [s EXCEPT !.queue = Append(@, entry)]
    IN IF ~queued.in_progress THEN _process_next_tool_request(queued) ELSE queued

\* Plausible slip: the acknowledgment reports the connection state.
InitiatedAck_connected ==
    [success |-> is_connected,
     result |-> EmptyDict,
     note |-> "Tool execution initiated - check response signal"]

InitiatedAck ==
    [success |-> TRUE,
     result |-> EmptyDict,
     note |-> "Tool execution initiated - check response signal"]

execute_tool_sync(tool_name, params, agent_id, tick) ==
    LET entry == [rid |-> submitted + 1,
                  dict |-> BuildRequestDict(tool_name, params, agent_id, tick)]
    IN /\ submitted < MaxSubmits
       /\ SetToolState(EnqueueAndStart(ToolState, entry))
       /\ submitted' = submitted + 1
       /\ last' = [op |-> "execute_tool_sync", rid |-> entry.rid,
                   dict |-> entry.dict, ack |-> InitiatedAck,
                   args |-> [tool_name |-> tool_name, params |-> params,
                             agent_id |-> agent_id, tick |-> tick]]
       /\ UNCHANGED <<mainVars, tickVars, resolved, signals>>

----------------------------------------------------------------------------
(* IPCClient::_on_tool_request_completed *)

\* Plausible slip: the status code is not looked at.
ToolOutcome_anystatus(result, response_code, body) ==
    IF result # RESULT_SUCCESS THEN "transport_failure"
    ELSE IF JSONParse(body).err # "OK" THEN "decode_failure"
    ELSE IF JSONParse(body).type # "DICTIONARY" THEN "decode_failure"
    ELSE "response"

\* How the callback classifies an exchange.
ToolOutcome(result, response_code, body) ==
    IF result # RESULT_SUCCESS THEN "transport_failure"
    ELSE IF response_code # HTTP_OK THEN "remote_rejection"
    ELSE IF JSONParse(body).err # "OK" THEN "decode_failure"
    ELSE IF JSONParse(body).type # "DICTIONARY" THEN "decode_failure"
    ELSE "response"

\* Plausible slip: the context is only filled in where the payload lacks it.
BuildToolResponse_keep(data, request) ==
    [k \in DOMAIN data \cup {"agent_id", "tool_name", "tick"} |->
        IF k \in DOMAIN data THEN data[k]
        ELSE IF k = "agent_id" THEN Get(request, "agent_id", "")
        ELSE IF k = "tool_name" THEN Get(request, "tool_name", "")
        ELSE Get(request, "tick", 0)]

\* Plausible slip: the response is built from the context alone.
BuildToolResponse_drop(data, request) ==
    [k \in {"agent_id", "tool_name", "tick"} |->
        IF k = "agent_id" THEN Get(request, "agent_id", "")
        ELSE IF k = "tool_name" THEN Get(request, "tool_name", "")
        ELSE Get(request, "tick", 0)]

BuildToolResponse(data, request) ==
    [k \in DOMAIN data \cup {"agent_id", "tool_name", "tick"} |->
        IF k = "agent_id" THEN Get(request, "agent_id", "")
        ELSE IF k = "tool_name" THEN Get(request, "tool_name", "")
        ELSE IF k = "tick" THEN Get(request, "tick", 0)
        ELSE data[k]]

\* Signals the callback emits for an exchange; x is the exchange that
\* completed (history only).
ToolSignals(x, result, response_code, body) ==
    IF ToolOutcome(result, response_code, body) = "response"
    THEN <<[name |-> "response_received",
            arg |-> BuildToolResponse(JSONParse(body).data, current_tool_request.dict),
            rid |-> x.rid]>>
    ELSE <<>>

\* Plausible slip: a failed request is put back for another attempt.
AfterToolCompletion_retry(s, x, outcome) ==
    LET cleared == [s EXCEPT !.in_progress = FALSE,
                             !.transport = @ \ {x},
                             !.queue = IF outcome = "response" THEN @ ELSE Append(@, x)]
    IN _process_next_tool_request(cleared)

\* Plausible slip: the failure paths return without starting the next request.
AfterToolCompletion_stall(s, x, outcome) ==
    LET cleared == [s EXCEPT !.in_progress = FALSE, !.transport = @ \ {x}]
    IN IF outcome = "response" THEN _process_next_tool_request(cleared) ELSE cleared

\* The flag is cleared first and every path ends in the drain.
AfterToolCompletion(s, x, outcome) ==
    LET cleared == [s EXCEPT !.in_progress = FALSE, !.transport = @ \ {x}]
    IN _process_next_tool_request(cleared)

\* Plausible slip: the success lines of the main callback are copied along,
\* so a tool response also raises the connection flag.
_on_tool_request_completed_copied(x, result, response_code, body) ==
    LET outcome == ToolOutcome(result, response_code, body)
    IN /\ x \in http_request_tool
       /\ SetToolState(AfterToolCompletion(ToolState, x, outcome))
       /\ signals' = signals \o ToolSignals(x, result, response_code, body)
       /\ resolved' = Append(resolved, [rid |-> x.rid, outcome |-> outcome])
       /\ last' = [op |-> "_on_tool_request_completed", rid |-> x.rid,
                   outcome |-> outcome, body |-> body,
                   result |-> result, response_code |-> response_code,
                   context |-> current_tool_request.dict]
       /\ is_connected' = IF outcome = "response" THEN TRUE ELSE is_connected
       /\ UNCHANGED <<http_request, response_received, pending_response,
                      tickVars, submitted>>

_on_tool_request_completed(x, result, response_code, body) ==
    LET outcome == ToolOutcome(result, response_code, body)
    IN /\ x \in http_request_tool
       /\ SetToolState(AfterToolCompletion(ToolState, x, outcome))
       /\ signals' = signals \o ToolSignals(x, result, response_code, body)
       /\ resolved' = Append(resolved, [rid |-> x.rid, outcome |-> outcome])
       /\ last' = [op |-> "_on_tool_request_completed", rid |-> x.rid,
                   outcome |-> outcome, body |-> body,
                   result |-> result, response_code |-> response_code,
                   context |-> current_tool_request.dict]
       /\ UNCHANGED <<mainVars, tickVars, submitted>>

----------------------------------------------------------------------------
(* Connection management on the main channel *)

\* Plausible slip: the flag is raised as soon as the health check is sent.
connect_to_server_optimistic(err) ==
    /\ IF err # "OK"
       THEN /\ is_connected' = FALSE
            /\ http_request' = "idle"
            /\ last' = [op |-> "connect_to_server",
                        emitted |-> <<[name |-> "connection_failed",
                                       arg |-> "HTTP request failed"]>>]
       ELSE /\ http_request' = "health"
            /\ is_connected' = TRUE
            /\ last' = [op |-> "connect_to_server", emitted |-> <<>>]
    /\ UNCHANGED <<toolVars, tickVars, response_received, pending_response,
                   submitted, resolved, signals>>

connect_to_server(err) ==
    /\ IF err # "OK"
       THEN /\ is_connected' = FALSE
            /\ http_request' = "idle"
            /\ last' = [op |-> "connect_to_server",
                        emitted |-> <<[name |-> "connection_failed",
                                       arg |-> "HTTP request failed"]>>]
       ELSE /\ http_request' = "health"
            /\ UNCHANGED is_connected
            /\ last' = [op |-> "connect_to_server", emitted |-> <<>>]
    /\ UNCHANGED <<toolVars, tickVars, response_received, pending_response,
                   submitted, resolved, signals>>

disconnect_from_server ==
    /\ is_connected' = FALSE
    /\ http_request' = "idle"
    /\ last' = [op |-> "disconnect_from_server"]
    /\ UNCHANGED <<toolVars, tickVars, response_received, pending_response,
                   submitted, resolved, signals>>

_on_request_completed(result, response_code, body) ==
    /\ http_request # "idle"
    /\ http_request' = "idle"
    /\ IF result # RESULT_SUCCESS
       THEN /\ is_connected' = FALSE
            /\ last' = [op |-> "_on_request_completed", result |-> result,
                        response_code |-> response_code, body |-> body,
                        emitted |-> <<[name |-> "connection_failed",
                                       arg |-> "Request failed"]>>]
            /\ UNCHANGED <<response_received, pending_response>>
       ELSE IF response_code = HTTP_OK
       THEN IF JSONParse(body).err = "OK" /\ JSONParse(body).type = "DICTIONARY"
            THEN /\ pending_response' = JSONParse(body).data
                 /\ response_received' = TRUE
                 /\ is_connected' = TRUE
                 /\ last' = [op |-> "_on_request_completed", result |-> result,
                             response_code |-> response_code, body |-> body,
                             emitted |-> <<[name |-> "response_received",
                                            arg |-> JSONParse(body).data]>>]
            ELSE /\ last' = [op |-> "_on_request_completed", result |-> result,
                             response_code |-> response_code, body |-> body,
                             emitted |-> <<>>]
                 /\ UNCHANGED <<pending_response, response_received, is_connected>>
       ELSE /\ is_connected' = FALSE
            /\ last' = [op |-> "_on_request_completed", result |-> result,
                             response_code |-> response_code, body |-> body,
                             emitted |-> <<>>]
            /\ UNCHANGED <<pending_response, response_received>>
    /\ answer' = IF /\ result = RESULT_SUCCESS
                    /\ response_code = HTTP_OK
                    /\ JSONParse(body).err = "OK"
                    /\ JSONParse(body).type = "DICTIONARY"
                 THEN [to |-> http_request, tick |-> http_request_tick]
                 ELSE answer
    /\ UNCHANGED <<client_current_tick, http_request_tick>>
    /\ UNCHANGED <<toolVars, submitted, resolved, signals>>

----------------------------------------------------------------------------
(* Tick requests on the main channel *)

\* Ticks a caller asks a decision for.
Ticks == {1, 2}

\* HTTPRequest::request refuses with ERR_BUSY while an exchange is pending
\* and leaves that exchange alone; err is what it returns otherwise.
send_tick_request(tick, err) ==
    /\ client_current_tick' = tick
    /\ response_received' = FALSE
    /\ IF http_request = "idle" /\ err = "OK"
       THEN /\ http_request' = "tick"
            /\ http_request_tick' = tick
       ELSE UNCHANGED <<http_request, http_request_tick>>
    /\ last' = [op |-> "send_tick_request", tick |-> tick]
    /\ UNCHANGED <<toolVars, is_connected, pending_response, answer,
                   submitted, resolved, signals>>

\* Plausible slip: the flag stays up after the response was handed out.
get_tick_response_keep ==
    /\ last' = [op |-> "get_tick_response",
                returned |-> IF response_received THEN pending_response
                             ELSE EmptyDict]
    /\ UNCHANGED <<toolVars, mainVars, tickVars, submitted, resolved, signals>>

get_tick_response ==
    /\ response_received' = FALSE
    /\ last' = [op |-> "get_tick_response",
                returned |-> IF response_received THEN pending_response
                             ELSE EmptyDict]
    /\ UNCHANGED <<toolVars, http_request, is_connected, pending_response,
                   tickVars, submitted, resolved, signals>>

----------------------------------------------------------------------------
(* ToolRegistry and Agent *)

\* Names callers ask for, and the ones a schema gets registered for.
ToolNames == {"search", "move"}

Registrable == {"search"}

AgentIds == {"agent_1"}

register_tool(name) ==
    /\ registered_tools' = registered_tools \cup {name}
    /\ last' = [op |-> "register_tool", name |-> name]
    /\ UNCHANGED <<ipc_client, tool_registry, Agent_agent_id, call>>

unregister_tool(name) ==
    /\ registered_tools' = registered_tools \ {name}
    /\ last' = [op |-> "unregister_tool", name |-> name]
    /\ UNCHANGED <<ipc_client, tool_registry, Agent_agent_id, call>>

set_ipc_client(client) ==
    /\ ipc_client' = client
    /\ last' = [op |-> "set_ipc_client", client |-> client]
    /\ UNCHANGED <<registered_tools, tool_registry, Agent_agent_id, call>>

set_tool_registry(registry) ==
    /\ tool_registry' = registry
    /\ last' = [op |-> "set_tool_registry", registry |-> registry]
    /\ UNCHANGED <<registered_tools, ipc_client, Agent_agent_id, call>>

set_agent_id(id) ==
    /\ Agent_agent_id' = id
    /\ last' = [op |-> "set_agent_id", id |-> id]
    /\ UNCHANGED <<registered_tools, ipc_client, tool_registry, call>>

ToolNotFound(name) ==
    [success |-> FALSE, error |-> "Tool not found: " \o name]

NoIpcClient ==
    [success |-> FALSE, error |-> "No IPC client available for tool execution"]

NoToolRegistry ==
    [success |-> FALSE,
     error |-> "No ToolRegistry set. Use SimpleAgent wrapper for production code."]

\* Plausible slip: the registration is not looked up before the call goes out.
execute_tool_unchecked(name, params, via) ==
    /\ IF ipc_client
       THEN /\ execute_tool_sync(name, params, "", 0)
            /\ call' = [via |-> via, tool_name |-> name, returned |-> InitiatedAck]
       ELSE /\ call' = [via |-> via, tool_name |-> name, returned |-> NoIpcClient]
            /\ last' = [op |-> "execute_tool", name |-> name]
            /\ UNCHANGED ipcVars
    /\ UNCHANGED <<registered_tools, ipc_client, tool_registry, Agent_agent_id>>

\* Plausible slip: the caller's identity and the simulation tick are passed on.
execute_tool_context(name, params, via) ==
    /\ IF name \notin registered_tools
       THEN /\ call' = [via |-> via, tool_name |-> name,
                        returned |-> ToolNotFound(name)]
            /\ last' = [op |-> "execute_tool", name |-> name]
            /\ UNCHANGED ipcVars
       ELSE IF ipc_client
       THEN /\ execute_tool_sync(name, params, Agent_agent_id, current_tick)
            /\ call' = [via |-> via, tool_name |-> name, returned |-> InitiatedAck]
       ELSE /\ call' = [via |-> via, tool_name |-> name, returned |-> NoIpcClient]
            /\ last' = [op |-> "execute_tool", name |-> name]
            /\ UNCHANGED ipcVars
    /\ UNCHANGED <<registered_tools, ipc_client, tool_registry, Agent_agent_id>>

\* ToolRegistry::execute_tool; via names the caller (history only).  The call
\* of execute_tool_sync leaves agent_id and tick at their declared defaults.
execute_tool(name, params, via) ==
    /\ IF name \notin registered_tools
       THEN /\ call' = [via |-> via, tool_name |-> name,
                        returned |-> ToolNotFound(name)]
            /\ last' = [op |-> "execute_tool", name |-> name]
            /\ UNCHANGED ipcVars
       ELSE IF ipc_client
       THEN /\ execute_tool_sync(name, params, "", 0)
            /\ call' = [via |-> via, tool_name |-> name, returned |-> InitiatedAck]
       ELSE /\ call' = [via |-> via, tool_name |-> name, returned |-> NoIpcClient]
            /\ last' = [op |-> "execute_tool", name |-> name]
            /\ UNCHANGED ipcVars
    /\ UNCHANGED <<registered_tools, ipc_client, tool_registry, Agent_agent_id>>

call_tool(tool_name, params) ==
    IF tool_registry
    THEN execute_tool(tool_name, params, "call_tool")
    ELSE /\ call' = [via |-> "call_tool", tool_name |-> tool_name,
                     returned |-> NoToolRegistry]
         /\ last' = [op |-> "call_tool", name |-> tool_name]
         /\ UNCHANGED ipcVars
         /\ UNCHANGED <<registered_tools, ipc_client, tool_registry, Agent_agent_id>>

----------------------------------------------------------------------------
(* SimulationManager and EventBus *)

\* Event types callers emit and the clock readings that stamp them.
EventTypes == {"spawn", "hit"}

Clock == {10, 20}

Event(event_type, data, now) ==
    [type |-> event_type, data |-> data, timestamp |-> now]

\* Arrays a caller hands to load_recording.
Recordings ==
    {<<>>,
     <<Event("spawn", EmptyDict, 10), Event("hit", EmptyDict, 20)>>,
     <<Event("hit", EmptyDict, 20), Event("spawn", EmptyDict, 10)>>}

start_recording == recording' = TRUE

stop_recording == recording' = FALSE

clear_events == event_queue' = <<>>

\* Plausible slip: the event is kept whether or not a recording is running.
emit_event_always(event_type, data, now) ==
    event_queue' = Append(event_queue, Event(event_type, data, now))

emit_event(event_type, data, now) ==
    event_queue' = IF recording
                   THEN Append(event_queue, Event(event_type, data, now))
                   ELSE event_queue

\* Array::duplicate: a new array with the same elements in the same order.
duplicate(array) == [i \in 1..Len(array) |-> array[i]]

export_recording == duplicate(event_queue)

load_recording(events) == event_queue' = duplicate(events)

\* SimulationManager::_ready; found tells whether the parent has an EventBus.
SimulationManager_ready(found) ==
    /\ event_bus' = found
    /\ last' = [op |-> "_ready", found |-> found]
    /\ UNCHANGED <<current_tick, is_running, recording, event_queue>>

start_simulation ==
    /\ is_running' = TRUE
    /\ IF event_bus THEN start_recording ELSE UNCHANGED recording
    /\ last' = [op |-> "start_simulation",
                emitted |-> <<[name |-> "simulation_started"]>>]
    /\ UNCHANGED <<current_tick, event_bus, event_queue>>

stop_simulation ==
    /\ is_running' = FALSE
    /\ IF event_bus THEN stop_recording ELSE UNCHANGED recording
    /\ last' = [op |-> "stop_simulation",
                emitted |-> <<[name |-> "simulation_stopped"]>>]
    /\ UNCHANGED <<current_tick, event_bus, event_queue>>

\* Plausible slip: the tick only advances while the simulation is running.
step_simulation_gated ==
    /\ current_tick < MaxTick
    /\ current_tick' = IF is_running THEN current_tick + 1 ELSE current_tick
    /\ last' = [op |-> "step_simulation",
                emitted |-> <<[name |-> "tick_advanced", arg |-> current_tick']>>]
    /\ UNCHANGED <<is_running, event_bus, recording, event_queue>>

step_simulation ==
    /\ current_tick < MaxTick
    /\ current_tick' = current_tick + 1
    /\ last' = [op |-> "step_simulation",
                emitted |-> <<[name |-> "tick_advanced", arg |-> current_tick']>>]
    /\ UNCHANGED <<is_running, event_bus, recording, event_queue>>

reset_simulation ==
    /\ current_tick' = 0
    /\ is_running' = FALSE
    /\ IF event_bus THEN clear_events ELSE UNCHANGED event_queue
    /\ last' = [op |-> "reset_simulation"]
    /\ UNCHANGED <<event_bus, recording>>

----------------------------------------------------------------------------
(* The program *)

Init ==
    /\ tool_request_queue = <<>>
    /\ tool_request_in_progress = FALSE
    /\ current_tool_request = NoRequest
    /\ http_request_tool = {}
    /\ http_request = "idle"
    /\ is_connected = FALSE
    /\ response_received = FALSE
    /\ pending_response = EmptyDict
    /\ submitted = 0
    /\ sent = <<>>
    /\ resolved = <<>>
    /\ signals = <<>>
    /\ last = NoOp
    /\ client_current_tick = 0
    /\ http_request_tick = 0
    /\ answer = NoAnswer
    /\ registered_tools = {}
    /\ ipc_client = FALSE
    /\ tool_registry = FALSE
    /\ Agent_agent_id = "agent_0"
    /\ call = NoCall
    /\ current_tick = 0
    /\ is_running = FALSE
    /\ event_bus = FALSE
    /\ recording = FALSE
    /\ event_queue = <<>>

Submit ==
    /\ \E c \in Calls :
           execute_tool_sync(c.tool_name, ParamsOf(c.tool_name), c.agent_id, c.tick)
    /\ UNCHANGED <<registryVars, simVars>>

ToolCompletion ==
    /\ \E x \in http_request_tool, c \in Completions :
           _on_tool_request_completed(x, c.result, c.response_code, c.body)
    /\ UNCHANGED <<registryVars, simVars>>

Connect ==
    /\ \E err \in {"OK", "ERR_INVALID_PARAMETER"} : connect_to_server(err)
    /\ UNCHANGED <<registryVars, simVars>>

Disconnect ==
    /\ disconnect_from_server
    /\ UNCHANGED <<registryVars, simVars>>

MainCompletion ==
    /\ \E c \in Completions :
           _on_request_completed(c.result, c.response_code, c.body)
    /\ UNCHANGED <<registryVars, simVars>>

SendTick ==
    /\ \E tick \in Ticks, err \in {"OK", "ERR_CANT_CONNECT"} :
           send_tick_request(tick, err)
    /\ UNCHANGED <<registryVars, simVars>>

GetTickResponse ==
    /\ get_tick_response
    /\ UNCHANGED <<registryVars, simVars>>

Next ==
    \/ Submit
    \/ ToolCompletion
    \/ Connect
    \/ Disconnect
    \/ MainCompletion

\* A tool channel driven by one caller and a server that answers or is down.
Replies ==
    {[result |-> "RESULT_CANT_CONNECT", response_code |-> 0, body |-> BodyNone],
     [result |-> RESULT_SUCCESS, response_code |-> HTTP_OK, body |-> BodyShadow]}

SubmitSearch ==
    /\ execute_tool_sync("search", ParamsOf("search"), "agent_1", 5)
    /\ UNCHANGED <<registryVars, simVars>>

ToolReply ==
    /\ \E x \in http_request_tool, c \in Replies :
           _on_tool_request_completed(x, c.result, c.response_code, c.body)
    /\ UNCHANGED <<registryVars, simVars>>

RegisterTool ==
    /\ \E name \in Registrable : register_tool(name)
    /\ UNCHANGED <<ipcVars, simVars>>

UnregisterTool ==
    /\ \E name \in Registrable : unregister_tool(name)
    /\ UNCHANGED <<ipcVars, simVars>>

SetIpcClient ==
    /\ \E client \in BOOLEAN : set_ipc_client(client)
    /\ UNCHANGED <<ipcVars, simVars>>

SetToolRegistry ==
    /\ \E registry \in BOOLEAN : set_tool_registry(registry)
    /\ UNCHANGED <<ipcVars, simVars>>

SetAgentId ==
    /\ \E id \in AgentIds : set_agent_id(id)
    /\ UNCHANGED <<ipcVars, simVars>>

ExecuteTool ==
    /\ \E name \in ToolNames : execute_tool(name, ParamsOf(name), "execute_tool")
    /\ UNCHANGED simVars

CallTool ==
    /\ \E name \in ToolNames : call_tool(name, ParamsOf(name))
    /\ UNCHANGED simVars

SimReady ==
    /\ \E found \in BOOLEAN : SimulationManager_ready(found)
    /\ UNCHANGED <<ipcVars, registryVars>>

StartSimulation ==
    /\ start_simulation
    /\ UNCHANGED <<ipcVars, registryVars>>

StopSimulation ==
    /\ stop_simulation
    /\ UNCHANGED <<ipcVars, registryVars>>

StepSimulation ==
    /\ step_simulation
    /\ UNCHANGED <<ipcVars, registryVars>>

ResetSimulation ==
    /\ reset_simulation
    /\ UNCHANGED <<ipcVars, registryVars>>

EmitEvent ==
    /\ recording => Len(event_queue) < MaxEvents
    /\ \E event_type \in EventTypes, now \in Clock :
           /\ emit_event(event_type, EmptyDict, now)
           /\ last' = [op |-> "emit_event",
                       event |-> Event(event_type, EmptyDict, now)]
    /\ UNCHANGED <<current_tick, is_running, event_bus, recording>>
    /\ UNCHANGED <<ipcVars, registryVars>>

ClearEvents ==
    /\ clear_events
    /\ last' = [op |-> "clear_events"]
    /\ UNCHANGED <<current_tick, is_running, event_bus, recording>>
    /\ UNCHANGED <<ipcVars, registryVars>>

StartRecording ==
    /\ start_recording
    /\ last' = [op |-> "start_recording"]
    /\ UNCHANGED <<current_tick, is_running, event_bus, event_queue>>
    /\ UNCHANGED <<ipcVars, registryVars>>

StopRecording ==
    /\ stop_recording
    /\ last' = [op |-> "stop_recording"]
    /\ UNCHANGED <<current_tick, is_running, event_bus, event_queue>>
    /\ UNCHANGED <<ipcVars, registryVars>>

ExportRecording ==
    /\ last' = [op |-> "export_recording", returned |-> export_recording]
    /\ UNCHANGED <<simVars, ipcVars, registryVars>>

LoadRecording ==
    /\ \E events \in Recordings :
           /\ load_recording(events)
           /\ last' = [op |-> "load_recording", events |-> events]
    /\ UNCHANGED <<current_tick, is_running, event_bus, recording>>
    /\ UNCHANGED <<ipcVars, registryVars>>

\* The tool channel alone, with every sent exchange completing in the end
\* (the 30 second timeout set on http_request_tool in _ready).
NextTool ==
    \/ Submit
    \/ ToolCompletion

ProgressSpec == Init /\ [][NextTool]_vars /\ WF_vars(ToolCompletion)

Spec == Init /\ [][Next]_vars

\* The main channel alone: health checks, tick requests and their completions.
NextMain ==
    \/ Connect
    \/ Disconnect
    \/ MainCompletion
    \/ SendTick
    \/ GetTickResponse

MainSpec == Init /\ [][NextMain]_vars

\* Calls through the ToolRegistry and the Agent while the simulation ticks.
NextRegistry ==
    \/ RegisterTool
    \/ UnregisterTool
    \/ SetIpcClient
    \/ SetToolRegistry
    \/ SetAgentId
    \/ StepSimulation
    \/ ExecuteTool
    \/ CallTool
    \/ ToolReply

RegistrySpec == Init /\ [][NextRegistry]_vars

\* The simulation loop and the event recording.
NextSim ==
    \/ SimReady
    \/ StartSimulation
    \/ StopSimulation
    \/ StepSimulation
    \/ ResetSimulation
    \/ EmitEvent
    \/ ClearEvents
    \/ StartRecording
    \/ StopRecording
    \/ ExportRecording
    \/ LoadRecording

SimSpec == Init /\ [][NextSim]_vars

\* Every operation of the IPCClient, both channels interleaved.
NextIpc ==
    \/ SubmitSearch
    \/ ToolReply
    \/ Connect
    \/ Disconnect
    \/ MainCompletion
    \/ SendTick
    \/ GetTickResponse

IpcSpec == Init /\ [][NextIpc]_vars

----------------------------------------------------------------------------
(* Vocabulary of the properties *)

Rids(seq) == {seq[i].rid : i \in DOMAIN seq}

Increasing(seq) == \A i, j \in DOMAIN seq : i < j => seq[i] < seq[j]

ResolvedRids == [i \in DOMAIN resolved |-> resolved[i].rid]

ToolSignalRids == [i \in DOMAIN signals |-> signals[i].rid]

\* Exchanges handed to the transport whose callback has not run yet.
InFlight == {sent[i] : i \in DOMAIN sent} \ Rids(resolved)

\* The step is a call of execute_tool_sync / a run of the tool callback.
SubmitStep == submitted' = submitted + 1

ToolCompletionStep == Len(resolved') = Len(resolved) + 1

----------------------------------------------------------------------------
\* C1: at most one tool exchange is sent and not yet completed in every
\* reachable state, and the in-progress flag is true exactly while one is.
C1_AtMostOneInFlight ==
    /\ Cardinality(InFlight) <= 1
    /\ Cardinality(http_request_tool) <= 1
    /\ InFlight = {x.rid : x \in http_request_tool}
    /\ tool_request_in_progress <=> InFlight # {}

C1_Witness ==
    /\ Cardinality(InFlight) = 1
    /\ Len(tool_request_queue) >= 1
    /\ Len(resolved) >= 1

C3_NoDoubleSend ==
    /\ \A i, j \in DOMAIN sent : i # j => sent[i] # sent[j]
    /\ \A i, j \in DOMAIN resolved : i # j => resolved[i].rid # resolved[j].rid
    /\ \A i \in DOMAIN resolved :
           /\ resolved[i].rid \notin Rids(tool_request_queue)
           /\ resolved[i].rid \notin {x.rid : x \in http_request_tool}
           /\ resolved[i].rid \in {sent[k] : k \in DOMAIN sent}

C3_Witness ==
    /\ Len(sent) = 3
    /\ Len(resolved) = 3
    /\ resolved[1].outcome = "transport_failure"
    /\ resolved[2].outcome = "remote_rejection"
    /\ resolved[3].outcome = "decode_failure"

\* C4: every tool exchange that completed has produced exactly one
\* notification to the caller, a ToolResponse or a failure event.
C4_OneOutcomePerRequest ==
    \A i \in DOMAIN resolved :
        Cardinality({j \in DOMAIN signals :
                        signals[j].rid = resolved[i].rid}) = 1

\* C5: a completion that is a transport failure, a non-200 status or a
\* decode failure leaves the flag cleared when the queue is empty, and
\* otherwise sends the head of the queue in the same step.
C5_SelfHealing ==
    [][(ToolCompletionStep /\ resolved'[Len(resolved')].outcome # "response")
        => IF tool_request_queue = <<>>
           THEN /\ ~tool_request_in_progress'
                /\ sent' = sent
                /\ http_request_tool' = {}
           ELSE /\ tool_request_queue' = Tail(tool_request_queue)
                /\ current_tool_request' = Head(tool_request_queue)
                /\ sent' = Append(sent, Head(tool_request_queue).rid)
                /\ http_request_tool' = {Head(tool_request_queue)}
                /\ tool_request_in_progress']_vars

C5_Witness ==
    /\ last.op = "_on_tool_request_completed"
    /\ last.outcome = "decode_failure"
    /\ tool_request_in_progress
    /\ Len(sent) = Len(resolved) + 1
    /\ current_tool_request.rid = last.rid + 1

\* C6: a ToolResponse emitted by the tool callback carries the agent_id,
\* tool_name and tick of the request whose exchange completed, also when
\* the decoded payload has keys of those names.
C6_ContextFidelity ==
    [][Len(signals') = Len(signals) + 1
        => \E x \in http_request_tool :
              /\ x \notin http_request_tool'
              /\ signals'[Len(signals')].rid = x.rid
              /\ signals'[Len(signals')].arg["agent_id"] = x.dict["agent_id"]
              /\ signals'[Len(signals')].arg["tool_name"] = x.dict["tool_name"]
              /\ signals'[Len(signals')].arg["tick"] = x.dict["tick"]]_vars

C6_Witness ==
    /\ last.op = "_on_tool_request_completed"
    /\ last.outcome = "response"
    /\ last.body = BodyShadow
    /\ signals[Len(signals)].arg["agent_id"] = "agent_1"
    /\ signals[Len(signals)].arg["tool_name"] = "move"
    /\ signals[Len(signals)].arg["tick"] = 5

\* C7: right after disconnect_from_server the tool transport has no
\* exchange left and no tool request is queued.
C7_Cancellation ==
    last.op = "disconnect_from_server"
        => /\ http_request_tool = {}
           /\ tool_request_queue = <<>>

\* C8: execute_tool_sync can be called in every state; it adds the request
\* at the tail of the queue (the drain it may start takes the head), returns
\* the 'initiated' acknowledgment and runs no completion.
C8_SubmitAccepted ==
    [][SubmitStep
        => /\ last'.ack.success = TRUE
           /\ last'.ack.result = EmptyDict
           /\ last'.ack.note = "Tool execution initiated - check response signal"
           /\ LET appended == Append(tool_request_queue,
                                     [rid |-> submitted', dict |-> last'.dict])
              IN \/ tool_request_queue' = appended /\ sent' = sent
                 \/ /\ tool_request_queue' = Tail(appended)
                    /\ sent' = Append(sent, Head(appended).rid)
           /\ resolved' = resolved
           /\ signals' = signals]_vars

C8_Witness ==
    /\ last.op = "execute_tool_sync"
    /\ ~is_connected
    /\ tool_request_in_progress
    /\ Len(tool_request_queue) = 2
    /\ last.ack.success

\* C9: a request is handed to the transport either by its own submit, when
\* nothing is in flight, or by a completion callback; a submit made while an
\* exchange is in flight only queues.
C9_SerializedDispatch ==
    [][/\ sent' # sent
          => \/ ToolCompletionStep
             \/ /\ SubmitStep
                /\ ~tool_request_in_progress
                /\ http_request_tool = {}
                /\ sent' = Append(sent, submitted')
       /\ (SubmitStep /\ InFlight # {})
          => /\ sent' = sent
             /\ http_request_tool' = http_request_tool
             /\ Len(tool_request_queue') = Len(tool_request_queue) + 1
             /\ tool_request_queue'[Len(tool_request_queue')].rid = submitted']_vars

C9_Witness ==
    /\ submitted = 3
    /\ sent = <<1>>
    /\ resolved = <<>>
    /\ Rids(tool_request_queue) = {2, 3}

\* C10: when every exchange ended in a transport failure and all submitted
\* requests have completed, nothing is in flight, the queue is empty and one
\* failure event per request was produced, in submission order.
C10_AllFailing ==
    (/\ submitted >= 1
     /\ Len(resolved) = submitted
     /\ \A i \in DOMAIN resolved : resolved[i].outcome = "transport_failure")
        => /\ ~tool_request_in_progress
           /\ tool_request_queue = <<>>
           /\ http_request_tool = {}
           /\ Len(signals) = submitted
           /\ \A i \in DOMAIN signals :
                  /\ signals[i].rid = i
                  /\ signals[i].name # "response_received"

----------------------------------------------------------------------------
\* The bodies that decode to a mapping.
MappingBodies == {BodyResult, BodyShadow}

ContextKeys == {"agent_id", "tool_name", "tick"}

\* C11: a tool completion emits a ToolResponse exactly when the transport
\* result is success, the status is 200 and the body decodes to a mapping;
\* every other completion emits nothing.
C11_ResponseIffSuccess ==
    [][ToolCompletionStep
        => IF /\ last'.result = "RESULT_SUCCESS"
              /\ last'.response_code = 200
              /\ last'.body \in MappingBodies
           THEN /\ Len(signals') = Len(signals) + 1
                /\ SubSeq(signals', 1, Len(signals)) = signals
                /\ signals'[Len(signals')].name = "response_received"
           ELSE signals' = signals]_vars

C11_Witness ==
    /\ Len(resolved) = 2
    /\ Len(signals) = 1
    /\ last.op = "_on_tool_request_completed"
    /\ last.result = "RESULT_SUCCESS"
    /\ last.response_code = 404
    /\ last.body = BodyResult

\* C12: a ToolResponse has the keys of the decoded body plus agent_id,
\* tool_name and tick and no others, and every other key of the body keeps
\* its value.
C12_PayloadPassThrough ==
    [][(ToolCompletionStep /\ Len(signals') = Len(signals) + 1)
        => LET payload == IF last'.body = BodyResult THEN DictResult ELSE DictShadow
               response == signals'[Len(signals')].arg
           IN /\ last'.body \in MappingBodies
              /\ DOMAIN response = DOMAIN payload \cup ContextKeys
              /\ \A k \in DOMAIN payload \ ContextKeys : response[k] = payload[k]]_vars

C12_Witness ==
    /\ last.op = "_on_tool_request_completed"
    /\ last.body = BodyResult
    /\ Len(signals) = 1
    /\ DOMAIN signals[1].arg = {"result", "agent_id", "tool_name", "tick"}
    /\ signals[1].arg["result"] = 42

ChannelIdle ==
    /\ ~tool_request_in_progress
    /\ http_request_tool = {}
    /\ tool_request_queue = <<>>

\* C13: when every sent exchange completes in the end, every submitted
\* request is sent and resolved in the end and the channel is idle again and
\* again; while a sent exchange has not completed no request is sent.
C13_Progress ==
    /\ \A r \in 1..MaxSubmits :
           (submitted >= r) ~> (r \in {sent[i] : i \in DOMAIN sent} /\ r \in Rids(resolved))
    /\ []<>ChannelIdle
    /\ [][(InFlight # {} /\ ~ToolCompletionStep) => sent' = sent]_vars

C13_Witness ==
    /\ submitted = MaxSubmits
    /\ Len(resolved) = MaxSubmits
    /\ resolved[1].outcome = "decode_failure"
    /\ resolved[2].outcome = "response"
    /\ ChannelIdle

\* The in-flight slot: the request of the exchange in progress, if any.
InFlightSlot ==
    IF tool_request_in_progress THEN {current_tool_request.rid} ELSE {}

\* C14: between operations the channel is idle (nothing in flight, queue
\* empty) or sending (exactly one exchange in flight); nothing in flight
\* with a non-empty queue is never reached.
C14_TwoStates ==
    /\ \/ ChannelIdle
       \/ /\ tool_request_in_progress
          /\ Cardinality(http_request_tool) = 1
    /\ ~(http_request_tool = {} /\ tool_request_queue # <<>>)
    /\ ~(~tool_request_in_progress /\ tool_request_queue # <<>>)

C14_Witness ==
    /\ last.op = "_on_tool_request_completed"
    /\ last.outcome = "remote_rejection"
    /\ Len(resolved) = 1
    /\ tool_request_in_progress
    /\ Len(tool_request_queue) = 1

\* C15: every submitted request is in exactly one of the queue, the
\* in-flight slot and the resolved requests, and the queue holds no request
\* twice.
C15_Conservation ==
    /\ \A r \in 1..submitted :
           Cardinality({place \in {"queue", "slot", "resolved"} :
                           \/ place = "queue" /\ r \in Rids(tool_request_queue)
                           \/ place = "slot" /\ r \in InFlightSlot
                           \/ place = "resolved" /\ r \in Rids(resolved)}) = 1
    /\ Cardinality(Rids(tool_request_queue)) = Len(tool_request_queue)
    /\ Rids(tool_request_queue) \cup InFlightSlot \cup Rids(resolved) = 1..submitted

C15_Witness ==
    /\ submitted = 3
    /\ Rids(resolved) = {1}
    /\ InFlightSlot = {2}
    /\ Rids(tool_request_queue) = {3}
    /\ last.op = "disconnect_from_server"

\* C16: the drain applied while an exchange is in flight, or with nothing
\* in flight and an empty queue, changes neither the queue, the flag, the
\* current request nor what was sent; a completion that finds the queue
\* empty leaves the channel idle.
C16_DrainNoOp ==
    /\ []((tool_request_in_progress \/ tool_request_queue = <<>>)
            => /\ _process_next_tool_request(ToolState).queue = tool_request_queue
               /\ _process_next_tool_request(ToolState).in_progress = tool_request_in_progress
               /\ _process_next_tool_request(ToolState).current = current_tool_request
               /\ _process_next_tool_request(ToolState).transport = http_request_tool
               /\ _process_next_tool_request(ToolState).sent = sent)
    /\ [][(ToolCompletionStep /\ tool_request_queue = <<>>)
            => /\ ChannelIdle'
               /\ current_tool_request' = current_tool_request
               /\ sent' = sent]_vars

C16_Witness ==
    /\ last.op = "_on_tool_request_completed"
    /\ ChannelIdle
    /\ Len(resolved) = 2
    /\ current_tool_request.rid = 2

\* C17: a completion that is a failure leaves the failed request neither
\* queued nor in the in-flight slot; a completion changes the queue only by
\* taking its head.
C17_NoRetry ==
    [][ToolCompletionStep
        => /\ \/ tool_request_queue = <<>> /\ tool_request_queue' = <<>>
              \/ tool_request_queue # <<>> /\ tool_request_queue' = Tail(tool_request_queue)
           /\ resolved'[Len(resolved')].outcome # "response"
                 => /\ last'.rid \notin Rids(tool_request_queue')
                    /\ last'.rid \notin {x.rid : x \in http_request_tool'}
                    /\ tool_request_in_progress' => current_tool_request'.rid # last'.rid]_vars

C17_Witness ==
    /\ last.op = "_on_tool_request_completed"
    /\ last.outcome = "transport_failure"
    /\ last.rid = 1
    /\ submitted = 3
    /\ Len(tool_request_queue) = 1
    /\ current_tool_request.rid = 2

\* C18: the queue is a plain FIFO: a submit made while an exchange is in
\* flight appends its request at the tail, also when an equal request is
\* queued already; a send takes exactly the oldest entry; a completion on an
\* empty queue finds nothing to send and leaves the queue empty.
C18_PlainFifo ==
    [][/\ (SubmitStep /\ tool_request_in_progress)
          => tool_request_queue' =
                 tool_request_queue \o <<[rid |-> submitted', dict |-> last'.dict]>>
       /\ (SubmitStep /\ ~tool_request_in_progress /\ tool_request_queue = <<>>)
          => /\ tool_request_queue' = <<>>
             /\ current_tool_request' = [rid |-> submitted', dict |-> last'.dict]
             /\ sent' = Append(sent, submitted')
       /\ (ToolCompletionStep /\ tool_request_queue # <<>>)
          => /\ tool_request_queue' = Tail(tool_request_queue)
             /\ current_tool_request' = Head(tool_request_queue)
             /\ sent' = Append(sent, Head(tool_request_queue).rid)
       /\ (ToolCompletionStep /\ tool_request_queue = <<>>)
          => /\ tool_request_queue' = <<>>
             /\ sent' = sent]_vars

C18_Witness ==
    /\ Len(tool_request_queue) = 2
    /\ tool_request_queue[1].dict = tool_request_queue[2].dict
    /\ current_tool_request.dict = tool_request_queue[1].dict
    /\ tool_request_in_progress

\* C19: the request a submit records has exactly the fields tool_name,
\* params, agent_id and tick with the values passed to it, and no step
\* changes a request that stays queued or moves to the transport.
C19_WireFidelity ==
    [][/\ SubmitStep
          => \E e \in {tool_request_queue'[i] : i \in DOMAIN tool_request_queue'}
                      \cup http_request_tool' :
                 /\ e.rid = submitted'
                 /\ DOMAIN e.dict = {"tool_name", "params", "agent_id", "tick"}
                 /\ e.dict["tool_name"] = last'.args.tool_name
                 /\ e.dict["params"] = last'.args.params
                 /\ e.dict["agent_id"] = last'.args.agent_id
                 /\ e.dict["tick"] = last'.args.tick
       /\ \A i \in DOMAIN tool_request_queue :
              \/ tool_request_queue[i] \in
                     {tool_request_queue'[j] : j \in DOMAIN tool_request_queue'}
              \/ /\ tool_request_queue[i] \in http_request_tool'
                 /\ current_tool_request' = tool_request_queue[i]]_vars

C19_Witness ==
    /\ submitted = 3
    /\ Len(resolved) = 2
    /\ \E x \in http_request_tool :
           /\ x.rid = 3
           /\ x.dict["tool_name"] = "move"
           /\ x.dict["agent_id"] = "agent_1"
           /\ x.dict["tick"] = 5
           /\ x.dict["params"] = ParamsOf("move")

\* The step is a run of the main-channel callback.
MainCompletionStep ==
    /\ http_request # "idle"
    /\ http_request' = "idle"
    /\ last'.op = "_on_request_completed"

\* C20: is_connected turns true only in a main-channel completion with
\* transport success, status 200 and a mapping body; a main-channel
\* transport failure, a non-200 status, a failed connect_to_server and
\* disconnect_from_server make it false; a 200 completion whose body is
\* unparseable or no mapping leaves it as it was.
C20_ConnectedFlag ==
    [][/\ (~is_connected /\ is_connected')
          => /\ MainCompletionStep
             /\ last'.result = "RESULT_SUCCESS"
             /\ last'.response_code = 200
             /\ last'.body \in MappingBodies
       /\ (MainCompletionStep /\ last'.result = "RESULT_SUCCESS"
             /\ last'.response_code = 200 /\ last'.body \in MappingBodies)
          => is_connected'
       /\ (MainCompletionStep /\ last'.result # "RESULT_SUCCESS") => ~is_connected'
       /\ (MainCompletionStep /\ last'.result = "RESULT_SUCCESS"
             /\ last'.response_code # 200)
          => ~is_connected'
       /\ (MainCompletionStep /\ last'.result = "RESULT_SUCCESS"
             /\ last'.response_code = 200 /\ last'.body \notin MappingBodies)
          => is_connected' = is_connected
       /\ (last'.op = "connect_to_server" /\ http_request' = "idle") => ~is_connected'
       /\ last'.op = "disconnect_from_server" => ~is_connected']_vars

C20_Witness ==
    /\ is_connected
    /\ last.op = "_on_request_completed"
    /\ last.result = "RESULT_SUCCESS"
    /\ last.response_code = 200
    /\ last.body = BodyArray

\* C21: the two channels do not touch each other's state.  A run of the tool
\* callback leaves is_connected, response_received and pending_response as they
\* were; a main completion, send_tick_request, connect_to_server and
\* get_tick_response leave the tool queue, the in-progress flag and the
\* current tool request as they were.
C21_ChannelFrames ==
    [][/\ last'.op = "_on_tool_request_completed"
          => UNCHANGED <<is_connected, response_received, pending_response>>
       /\ last'.op \in {"_on_request_completed", "send_tick_request",
                        "connect_to_server", "get_tick_response"}
          => UNCHANGED <<tool_request_queue, tool_request_in_progress,
                         current_tool_request>>]_vars

C21_Witness ==
    /\ last.op = "_on_request_completed"
    /\ response_received
    /\ Len(tool_request_queue) >= 1
    /\ tool_request_in_progress
    /\ \E i \in DOMAIN resolved : resolved[i].outcome = "response"
    /\ client_current_tick > 0

\* C22: ToolRegistry::execute_tool answers success = false with an error and
\* enqueues and sends nothing when the tool is not registered or no IPC client
\* is attached (and so does Agent::call_tool without a registry); only a
\* registered tool with an IPC client attached leads to a submit, exactly one.
C22_RegistryGate ==
    [][last'.op \in {"execute_tool", "call_tool", "execute_tool_sync"} =>
        IF /\ call'.tool_name \in registered_tools
           /\ ipc_client
           /\ call'.via = "call_tool" => tool_registry
        THEN /\ submitted' = submitted + 1
             /\ last'.op = "execute_tool_sync"
             /\ last'.args.tool_name = call'.tool_name
             /\ call'.returned.success = TRUE
        ELSE /\ call'.returned.success = FALSE
             /\ "error" \in DOMAIN call'.returned
             /\ UNCHANGED <<tool_request_queue, tool_request_in_progress,
                            current_tool_request, http_request_tool, sent,
                            submitted>>]_vars

C22_Witness ==
    /\ last.op = "execute_tool"
    /\ call.via = "execute_tool"
    /\ call.tool_name \in registered_tools
    /\ ~ipc_client
    /\ call.returned.success = FALSE
    /\ tool_request_in_progress
    /\ Len(tool_request_queue) >= 1

\* C23: a request that comes through Agent::call_tool or
\* ToolRegistry::execute_tool is submitted with agent_id "" and tick 0 whatever
\* the agent's id and the simulation tick are, and every response delivered
\* for it carries agent_id "" and tick 0.
C23_DefaultContext ==
    /\ \A i \in DOMAIN tool_request_queue :
          /\ tool_request_queue[i].dict["agent_id"] = ""
          /\ tool_request_queue[i].dict["tick"] = 0
    /\ \A x \in http_request_tool :
          x.dict["agent_id"] = "" /\ x.dict["tick"] = 0
    /\ last.op = "execute_tool_sync" =>
          last.args.agent_id = "" /\ last.args.tick = 0
    /\ \A i \in DOMAIN signals :
          signals[i].arg["agent_id"] = "" /\ signals[i].arg["tick"] = 0

C23_Witness ==
    /\ last.op = "execute_tool_sync"
    /\ call.via = "call_tool"
    /\ Agent_agent_id = "agent_1"
    /\ current_tick > 0
    /\ signals # <<>>

\* C24: a main completion with success, status 200 and a mapping body raises
\* has_response and stores the mapping; the next get_tick_response returns that
\* mapping and clears the flag; get_tick_response returns the empty mapping
\* while the flag is down, and only such a completion raises it again;
\* send_tick_request always leaves the flag down.
C24_ResponseSlot ==
    [][/\ (/\ last'.op = "_on_request_completed"
           /\ last'.result = RESULT_SUCCESS
           /\ last'.response_code = HTTP_OK
           /\ last'.body \in {BodyResult, BodyShadow})
          => /\ response_received'
             /\ pending_response' = IF last'.body = BodyResult THEN DictResult
                                    ELSE DictShadow
       /\ last'.op = "get_tick_response"
          => /\ ~response_received'
             /\ pending_response' = pending_response
             /\ last'.returned = IF response_received THEN pending_response
                                 ELSE EmptyDict
       /\ last'.op = "send_tick_request" => ~response_received'
       /\ (~response_received /\ response_received')
          => /\ last'.op = "_on_request_completed"
             /\ last'.result = RESULT_SUCCESS
             /\ last'.response_code = HTTP_OK
             /\ last'.body \in {BodyResult, BodyShadow}]_vars

C24_Witness ==
    /\ last.op = "get_tick_response"
    /\ last.returned = DictResult
    /\ ~response_received
    /\ answer.to = "tick"
    /\ client_current_tick = answer.tick

\* C25: whenever has_response is true, the stored mapping is the response to
\* the most recent send_tick_request, the one whose tick equals current_tick,
\* whatever the interleaving of health checks, tick requests made while the
\* main transport is busy, and main completions.
C25_ResponseMatchesRequest ==
    response_received =>
        /\ answer.to = "tick"
        /\ answer.tick = client_current_tick

\* C26: current_tick starts at 0; every step_simulation adds exactly one to
\* it, running or not; start_simulation and stop_simulation leave it as it
\* is; reset_simulation sets it to 0 and is_running to false; it never goes
\* down except through reset_simulation.
C26_TickCounter ==
    /\ current_tick = 0
    /\ [][/\ last'.op = "step_simulation"
             => current_tick' = current_tick + 1 /\ is_running' = is_running
          /\ last'.op \in {"start_simulation", "stop_simulation"}
             => current_tick' = current_tick
          /\ last'.op = "reset_simulation"
             => current_tick' = 0 /\ ~is_running'
          /\ current_tick' < current_tick
             => last'.op = "reset_simulation"]_vars

C26_Witness ==
    /\ last.op = "step_simulation"
    /\ ~is_running
    /\ current_tick >= 2
    /\ event_queue # <<>>

\* C27: emit_event adds the event to the recording only while recording is on;
\* with an EventBus attached start_simulation turns recording on and
\* stop_simulation turns it off; reset_simulation empties the recording and
\* leaves the recording flag as it is; export_recording after load_recording
\* returns the loaded events in the same order.
C27_Recording ==
    [][/\ last'.op = "emit_event"
          => event_queue' = IF recording THEN Append(event_queue, last'.event)
                            ELSE event_queue
       /\ (last'.op = "start_simulation" /\ event_bus) => recording'
       /\ (last'.op = "stop_simulation" /\ event_bus) => ~recording'
       /\ (last'.op = "reset_simulation" /\ event_bus)
          => event_queue' = <<>> /\ recording' = recording
       /\ last'.op = "load_recording" => event_queue' = last'.events
       /\ last'.op = "export_recording"
          => last'.returned = event_queue /\ event_queue' = event_queue
       /\ (last.op = "load_recording" /\ last'.op = "export_recording")
          => last'.returned = last.events]_vars

C27_Witness ==
    /\ last.op = "export_recording"
    /\ last.returned = <<Event("hit", EmptyDict, 20), Event("spawn", EmptyDict, 10)>>
    /\ event_bus
    /\ ~recording
    /\ is_running

====
